---- MODULE Spec2Model ----
(***************************************************************************)
(* A model of pdfreader's LZW filter (filters/lzw.py) and of its simple    *)
(* content-stream viewer (viewer/simple.py).                               *)
(*                                                                         *)
(* Bytes are the integers 0..255, byte strings are sequences of bytes.     *)
(* A value that may be None is None (the empty tuple) or Some(x), so that  *)
(* None and b"" stay apart.                                                *)
(***************************************************************************)
EXTENDS Integers, Sequences, FiniteSets, TLC

None == <<>>

Some(x) == <<x>>

\* the x of Some(x)
The(opt) == opt[1]

\* no exception
NoError == "none"

(***************************************************************************)
(* Bounds of the model.                                                    *)
(***************************************************************************)
\* longest byte string handed to decode()
MaxBytes == 3
\* longest plain text handed to the reference encoder
MaxMsg == 3
\* most codepoints a directly driven Decoder is fed
MaxFeed == 4
\* most operators of a page
MaxOps == 4
\* codepoints since a reset after which the unpacker's byte source is closed
MaxRun == 9
\* codebook-size counter at which the long-running byte source is closed
MaxCounter == 4100
\* codepoints since a reset after which the byte source of the unpacker and
\* decoder running together is closed
MaxSync == 5

(***************************************************************************)
(* filters/lzw.py: constants                                               *)
(***************************************************************************)
CLEAR_CODE == 256
END_OF_INFO_CODE == 257
DEFAULT_MIN_BITS == 9
DEFAULT_MAX_BITS == 12

\* n-th power of two, the code's 1 << n and 2 ** n
RECURSIVE Pow2(_)
Pow2(n) == IF n = 0 THEN 1 ELSE 2 * Pow2(n - 1)

(***************************************************************************)
(* bytestobits / intfrombits                                               *)
(***************************************************************************)
\* the bit bytestobits yields for bit index bitplusone - 1 of value
NextBitOf(value, bitplusone) == (value \div Pow2(bitplusone - 1)) % 2

\* all the bits of a byte string, most significant bit of each byte first
RECURSIVE bytestobits(_)
bytestobits(bytesource) ==
    IF bytesource = <<>> THEN <<>>
    ELSE [i \in 1..8 |-> NextBitOf(Head(bytesource), 9 - i)]
         \o bytestobits(Tail(bytesource))

\* the loop of intfrombits from bit_index on; lsb_first[bit_index] is
\* bits[Len(bits) - bit_index], and ret | (1 << bit_index) adds 2 ** bit_index
RECURSIVE OrBitsFrom(_, _)
OrBitsFrom(bits, bit_index) ==
    IF bit_index >= Len(bits) THEN 0
    ELSE bits[Len(bits) - bit_index] * Pow2(bit_index)
         + OrBitsFrom(bits, bit_index + 1)

\* MSB-first unsigned integer of a list of bits
intfrombits(bits) == OrBitsFrom(bits, 0)

(***************************************************************************)
(* BitUnpacker                                                             *)
(***************************************************************************)
\* minwidth = 8; while (1 << minwidth) < codesize: minwidth += 1
RECURSIVE MinWidthFrom(_, _)
MinWidthFrom(minwidth, codesize) ==
    IF Pow2(minwidth) < codesize THEN MinWidthFrom(minwidth + 1, codesize)
    ELSE minwidth

MinWidth(codesize) == MinWidthFrom(8, codesize)

\* the width growth with > for >=: the width grows one codepoint late
RECURSIVE GrowWidthLate(_, _)
GrowWidthLate(codesize, pointwidth) ==
    IF codesize > Pow2(pointwidth) THEN GrowWidthLate(codesize, pointwidth + 1)
    ELSE pointwidth

\* while codesize >= 2 ** pointwidth: pointwidth += 1
RECURSIVE GrowWidth(_, _)
GrowWidth(codesize, pointwidth) ==
    IF codesize >= Pow2(pointwidth) THEN GrowWidth(codesize, pointwidth + 1)
    ELSE pointwidth

\* ignore = 8 - offset: a whole byte is skipped on a byte boundary
AlignIgnoreSkipsByte(offset) == 8 - offset

\* ignore = (8 - offset) % 8
AlignIgnore(offset) == (8 - offset) % 8

\* the local variables of unpack() before its loop
UnpackerStart(initial_code_size) ==
    [ bits       |-> <<>>,
      offset     |-> 0,
      ignore     |-> 0,
      codepoint  |-> None,
      codesize   |-> initial_code_size,
      initial    |-> initial_code_size,
      minwidth   |-> MinWidth(initial_code_size),
      pointwidth |-> MinWidth(initial_code_size) ]

\* what follows `yield codepoint` without `bits = []`
AfterYieldKeepsBits(u, codepoint, offset) ==
    LET control == codepoint \in {CLEAR_CODE, END_OF_INFO_CODE}
        codesize == IF control THEN u.initial ELSE u.codesize + 1
    IN [ u EXCEPT
           !.bits       = Append(u.bits, codepoint % 2),
           !.offset     = offset,
           !.codepoint  = Some(codepoint),
           !.codesize   = codesize,
           !.pointwidth = IF control THEN u.minwidth
                          ELSE GrowWidth(codesize, u.pointwidth),
           !.ignore     = IF codepoint = END_OF_INFO_CODE
                          THEN AlignIgnore(offset) ELSE u.ignore ]

\* what follows `yield codepoint` with the counter counting on over a
\* control code
AfterYieldNoReset(u, codepoint, offset) ==
    LET control == codepoint \in {CLEAR_CODE, END_OF_INFO_CODE}
        codesize == u.codesize + 1
    IN [ u EXCEPT
           !.bits       = <<>>,
           !.offset     = offset,
           !.codepoint  = Some(codepoint),
           !.codesize   = codesize,
           !.pointwidth = IF control THEN u.minwidth
                          ELSE GrowWidth(codesize, u.pointwidth),
           !.ignore     = IF codepoint = END_OF_INFO_CODE
                          THEN AlignIgnore(offset) ELSE u.ignore ]

\* what follows `yield codepoint`: the counter, the width and the alignment
AfterYield(u, codepoint, offset) ==
    LET control == codepoint \in {CLEAR_CODE, END_OF_INFO_CODE}
        codesize == IF control THEN u.initial ELSE u.codesize + 1
    IN [ u EXCEPT
           !.bits       = <<>>,
           !.offset     = offset,
           !.codepoint  = Some(codepoint),
           !.codesize   = codesize,
           !.pointwidth = IF control THEN u.minwidth
                          ELSE GrowWidth(codesize, u.pointwidth),
           !.ignore     = IF codepoint = END_OF_INFO_CODE
                          THEN AlignIgnore(offset) ELSE u.ignore ]

\* one iteration of `for nextbit in bytestobits(bytesource)`:
\* st is the unpacker afterwards, out the codepoints it yielded (none or one)
UnpackLoopBody(u, nextbit) ==
    LET offset == (u.offset + 1) % 8
        bits   == Append(u.bits, nextbit)
    IN IF u.ignore > 0
       THEN [ st  |-> [u EXCEPT !.offset = offset, !.ignore = u.ignore - 1],
              out |-> <<>> ]
       ELSE IF Len(bits) = u.pointwidth
            THEN [ st  |-> AfterYield(u, intfrombits(bits), offset),
                   out |-> <<intfrombits(bits)>> ]
            ELSE [ st  |-> [u EXCEPT !.offset = offset, !.bits = bits],
                   out |-> <<>> ]

(***************************************************************************)
(* Decoder                                                                 *)
(***************************************************************************)
\* _clear_codes: 256 single-byte entries and the two control entries
InitialCodebook ==
    [pt \in 0..257 |-> IF pt < 256 THEN <<pt>> ELSE pt]

ClearCodes == [codepoints |-> InitialCodebook, prefix |-> None]

\* code_size(): len(self._codepoints)
code_size(d) == Cardinality(DOMAIN d.codepoints)

\* the size of a fresh Decoder's codebook, which ByteDecoder gives the BitUnpacker
InitialSize == code_size(ClearCodes)

\* ret[0:1]
FirstByte(ret) == IF ret = <<>> THEN <<>> ELSE <<ret[1]>>

\* self._codepoints[len(self._codepoints)] = entry
AddCode(d, entry) ==
    [d EXCEPT !.codepoints =
        [pt \in 0..code_size(d) |->
            IF pt < code_size(d) THEN d.codepoints[pt] ELSE entry]]

\* the known-codepoint branch without the None != self._prefix guard
DecodeKnownAlwaysAdds(d, codepoint) ==
    LET ret == d.codepoints[codepoint]
        d1  == AddCode(d, (IF d.prefix # None THEN The(d.prefix) ELSE <<>>)
                          \o FirstByte(ret))
    IN [dec |-> [d1 EXCEPT !.prefix = Some(ret)], ret |-> ret,
        raised |-> NoError]

\* the known-codepoint branch
DecodeKnown(d, codepoint) ==
    LET ret == d.codepoints[codepoint]
        d1  == IF d.prefix # None
               THEN AddCode(d, The(d.prefix) \o FirstByte(ret))
               ELSE d
    IN [dec |-> [d1 EXCEPT !.prefix = Some(ret)], ret |-> ret,
        raised |-> NoError]

\* the unknown-codepoint branch; ret is still b"" when ret[0:1] is taken
DecodeUnknown(d, codepoint) ==
    IF d.prefix = None
    THEN [dec |-> d, ret |-> <<>>, raised |-> "TypeError"]
    ELSE LET ret == The(d.prefix) \o FirstByte(<<>>)
         IN [dec |-> [AddCode(d, ret) EXCEPT !.prefix = Some(ret)],
             ret |-> ret, raised |-> NoError]

\* _decode_codepoint with a _clear_codes that leaves _prefix as it is
decode_codepointKeepsPrefix(d, codepoint) ==
    IF codepoint = CLEAR_CODE
    THEN [dec |-> [ClearCodes EXCEPT !.prefix = d.prefix], ret |-> <<>>,
          raised |-> NoError]
    ELSE IF codepoint = END_OF_INFO_CODE
         THEN [dec |-> d, ret |-> <<>>, raised |-> "ValueError"]
         ELSE IF codepoint \in DOMAIN d.codepoints
              THEN DecodeKnown(d, codepoint)
              ELSE DecodeUnknown(d, codepoint)

\* _decode_codepoint: the decoder afterwards, the bytes returned, the exception
decode_codepoint(d, codepoint) ==
    IF codepoint = CLEAR_CODE
    THEN [dec |-> ClearCodes, ret |-> <<>>, raised |-> NoError]
    ELSE IF codepoint = END_OF_INFO_CODE
         THEN [dec |-> d, ret |-> <<>>, raised |-> "ValueError"]
         ELSE IF codepoint \in DOMAIN d.codepoints
              THEN DecodeKnown(d, codepoint)
              ELSE DecodeUnknown(d, codepoint)

\* Decoder.decode's loop: r is what _decode_codepoint returned for the
\* codepoint before rest; an exception ends the loop
RECURSIVE DecodeLoop(_, _, _)
DecodeLoop(r, rest, decoded) ==
    IF r.raised # NoError
    THEN [dec |-> r.dec, decoded |-> decoded, raised |-> r.raised]
    ELSE IF rest = <<>>
         THEN [dec |-> r.dec, decoded |-> decoded \o r.ret, raised |-> NoError]
         ELSE DecodeLoop(decode_codepoint(r.dec, Head(rest)), Tail(rest),
                         decoded \o r.ret)

\* Decoder().decode(codepoints): a fresh Decoder decoding a list
Decoder_decode(cps) ==
    DecodeLoop([dec |-> ClearCodes, ret |-> <<>>, raised |-> NoError], cps, <<>>)

(***************************************************************************)
(* The encoder the decoder is the dual of (python-lzw's Encoder and        *)
(* BitPacker, which this repository dropped): plain LZW over the same      *)
(* 258-entry codebook, flushed with the last prefix and a CLEAR, packed    *)
(* MSB-first with the unpacker's width timing and padded with zero bits.   *)
(***************************************************************************)
\* the code of a byte string the encoder knows; table holds the added entries
CodeOf(table, s) ==
    IF Len(s) = 1 THEN s[1]
    ELSE END_OF_INFO_CODE + (CHOOSE i \in 1..Len(table) : table[i] = s)

KnownKey(table, key) ==
    Len(key) = 1 \/ \E i \in 1..Len(table) : table[i] = key

RECURSIVE EncodeFrom(_, _, _)
EncodeFrom(table, prefix, rest) ==
    IF rest = <<>>
    THEN (IF prefix = <<>> THEN <<>> ELSE <<CodeOf(table, prefix)>>)
         \o <<CLEAR_CODE>>
    ELSE LET key == Append(prefix, Head(rest))
         IN IF KnownKey(table, key)
            THEN EncodeFrom(table, key, Tail(rest))
            ELSE <<CodeOf(table, prefix)>>
                 \o EncodeFrom(Append(table, key), <<Head(rest)>>, Tail(rest))

encode(msg) == EncodeFrom(<<>>, <<>>, msg)

inttobits(n, width) == [i \in 1..width |-> (n \div Pow2(width - i)) % 2]

RECURSIVE PackFrom(_, _, _)
PackFrom(codes, codesize, width) ==
    IF codes = <<>> THEN <<>>
    ELSE LET pt      == Head(codes)
             control == pt \in {CLEAR_CODE, END_OF_INFO_CODE}
             size    == IF control THEN InitialSize ELSE codesize + 1
         IN inttobits(pt, width)
            \o PackFrom(Tail(codes), size,
                        IF control THEN MinWidth(size) ELSE GrowWidth(size, width))

RECURSIVE bitstobytes(_)
bitstobytes(bits) ==
    IF bits = <<>> THEN <<>>
    ELSE IF Len(bits) < 8
         THEN <<intfrombits(bits \o [i \in 1..(8 - Len(bits)) |-> 0])>>
         ELSE <<intfrombits(SubSeq(bits, 1, 8))>>
              \o bitstobytes(SubSeq(bits, 9, Len(bits)))

encodetobytes(msg) ==
    bitstobytes(PackFrom(encode(msg), InitialSize,
                         MinWidth(InitialSize)))

(***************************************************************************)
(* _remove_predictors (filters/predictors.py): with no Predictor, or the   *)
(* identity Predictor 1, the data is returned as it is.                    *)
(***************************************************************************)
remove_predictors(bytes, predictor, columns) == bytes

(***************************************************************************)
(* Inputs                                                                  *)
(***************************************************************************)
\* sequences over S of length at most n
SeqsUpTo(S, n) == UNION {[1..k -> S] : k \in 0..n}

\* 0x00, 0x40, 0x80, 0xC0: enough to spell 9-bit codes 0, 1, 256, 257, 258, ...
ByteAlphabet == {0, 64, 128, 192}

\* 'a', 'b'
MsgAlphabet == {97, 98}

Messages == SeqsUpTo(MsgAlphabet, MaxMsg)

Encodings == {encodetobytes(m) : m \in Messages}

InputSet == SeqsUpTo(ByteAlphabet, MaxBytes) \cup Encodings

ParamSet == { [Predictor |-> None, Columns |-> None],
              [Predictor |-> Some(1), Columns |-> None] }

(***************************************************************************)
(* viewer/simple.py: values of a content stream                            *)
(*                                                                         *)
(* A value is a record tagged with its Python type.  A Python str is a     *)
(* sequence of tokens: Lit(s) for literal text, Text(...) for the text a   *)
(* string decoder returned, Escaped(...) for pdf_escape_string of it.      *)
(***************************************************************************)
Lit(s) == <<s>>

Name(n) == [t |-> "Name", v |-> n]

String(s) == [t |-> "String", v |-> s]

HexString(s) == [t |-> "HexString", v |-> s]

Integer(digits) == [t |-> "Integer", v |-> digits]

Array(elms) == [t |-> "Array", v |-> elms]

\* a Python str
Str(tokens) == [t |-> "str", v |-> tokens]

Operator(name, args) == [t |-> "Operator", name |-> name, args |-> args]

InlineImage(entries, filtered) ==
    [t |-> "InlineImage", dictionary |-> entries, filtered |-> filtered]

\* the types object_to_string has a branch for
Serializable ==
    { "None", "Boolean", "Name", "str", "String", "HexString", "int",
      "Integer", "Decimal", "Array", "Dictionary", "Operator", "InlineImage" }

\* " ".join(parts), parts a sequence of token sequences
RECURSIVE Join(_)
Join(parts) ==
    IF parts = <<>> THEN <<>>
    ELSE IF Len(parts) = 1 THEN parts[1]
    ELSE parts[1] \o <<Lit(" ")>> \o Join(Tail(parts))

\* the entries of an inline image's dictionary that are kept
RECURSIVE KeptEntries(_)
KeptEntries(entries) ==
    IF entries = <<>> THEN <<>>
    ELSE IF Head(entries).k \in {"F", "Filter", "DecodeParms"}
         THEN KeptEntries(Tail(entries))
         ELSE <<Head(entries)>> \o KeptEntries(Tail(entries))

\* object_to_string: the tokens of the str it returns
RECURSIVE object_to_string(_)
object_to_string(obj) ==
    CASE obj.t = "None" -> <<Lit("null")>>
      [] obj.t = "Boolean" -> <<Lit(IF obj.v = "True" THEN "true" ELSE "false")>>
      [] obj.t = "Name" -> <<Lit("/"), Lit(obj.v)>>
      [] obj.t = "str" -> obj.v
      [] obj.t \in {"String", "HexString"} -> <<Lit(obj.v)>>
      [] obj.t \in {"int", "Integer", "Decimal"} -> <<Lit(obj.v)>>
      [] obj.t = "Array" ->
            <<Lit("[")>>
            \o Join([i \in 1..Len(obj.v) |-> object_to_string(obj.v[i])])
            \o <<Lit("]")>>
      [] obj.t = "Dictionary" ->
            <<Lit("<<")>>
            \o Join([i \in 1..Len(obj.v) |->
                        <<Lit("/"), Lit(obj.v[i].k), Lit(" ")>>
                        \o object_to_string(obj.v[i].v)])
            \o <<Lit(">>")>>
      [] obj.t = "Operator" ->
            <<Lit("\n")>>
            \o Join([i \in 1..Len(obj.args) |-> object_to_string(obj.args[i])])
            \o <<Lit(" "), Lit(obj.name)>>
      [] obj.t = "InlineImage" ->
            <<Lit("\nBI\n")>>
            \o Join([i \in 1..Len(KeptEntries(obj.dictionary)) |->
                        <<Lit("/"), Lit(KeptEntries(obj.dictionary)[i].k), Lit(" ")>>
                        \o object_to_string(KeptEntries(obj.dictionary)[i].v)])
            \o <<Lit(" /Filter /ASCII85Decode"), Lit("\nID\n"),
                 <<"b85encode", obj.filtered>>, Lit("~>"), Lit("\nEI")>>

(***************************************************************************)
(* The collaborators of the viewer: string decoders, the graphics state    *)
(* stack, the resources, the content parser and the viewer base classes.   *)
(***************************************************************************)
\* codecs.decoder.default_decoder, the one shared instance
default_decoder == 0

\* Decoder.decode_string(s) / Decoder.decode_hexstring(s) of instance obj
Text(obj, how, s) == <<"text", obj, how, s.v>>

\* "({})".format(pdf_escape_string(s))
EscapedLiteral(s) == Str(<<Lit("("), <<"pdf_escape_string", s>>, Lit(")")>>)

\* a fresh graphics state: no font selected
NewGraphicsState == [Font |-> None]

\* gss.state.font_name: the first of the Tf operands
font_name(state) ==
    IF state.Font = None THEN None ELSE Some(The(state.Font)[1].v)

\* the page's resources
PageFonts == {"F1", "F2"}

\* content streams of the forms, as the content parser returns them
FormOne ==
    << Operator("Tf", <<Name("F2"), Integer("9")>>),
       Operator("BT", <<>>),
       Operator("Tj", <<String("b")>>),
       Operator("ET", <<>>) >>

FormTwo ==
    << Operator("Tj", <<HexString("c")>>),
       Operator("Do", <<Name("Fm1")>>),
       Operator("Tf", <<Name("F3"), Integer("7")>>),
       Operator("'", <<String("d")>>) >>

\* resources.XObject
XObjects ==
    [ n \in {"Im1", "Fm1", "Fm2"} |->
        CASE n = "Im1" -> [t |-> "Image", id |-> n, filtered |-> <<>>, Fonts |-> {}]
          [] n = "Fm1" -> [t |-> "Form", id |-> n, filtered |-> FormOne, Fonts |-> {}]
          [] n = "Fm2" -> [t |-> "Form", id |-> n, filtered |-> FormTwo, Fonts |-> {"F3"}] ]

\* Resources.from_page(page, resources_stack=[xobj.Resources]): the form's
\* own fonts first, the page's for the rest
FormResources(res, xobj) == [res EXCEPT !.Font = xobj.Fonts \cup res.Font]

\* SimpleCanvas()
EmptyMap == [n \in {} |-> n]

SimpleCanvas ==
    [ text_content  |-> <<>>,
      strings       |-> <<>>,
      images        |-> EmptyMap,
      forms         |-> EmptyMap,
      inline_images |-> <<>> ]

\* the viewer working on the very graphics state it is given
GssShared(heap, gss) == [heap |-> heap, gss |-> gss]

\* ContextualViewer.__init__: the viewer works on a copy of the graphics
\* state it is given, held at a location of its own
GssCopy(heap, gss) == [heap |-> Append(heap, heap[gss]), gss |-> Len(heap) + 1]

(***************************************************************************)
(* TextOperatorsMixin                                                      *)
(*                                                                         *)
(* A viewer is a record: kind ("page" or "form"), bracket_commands_stack,  *)
(* _decoders, gss (the location of its graphics state in heap), resources, *)
(* canvas; heap holds the graphics states, made the fonts a Decoder was    *)
(* constructed for, in order (instance i is made[i]); used and built       *)
(* record, for this viewer, the font names a string was decoded under and  *)
(* the Decoder constructions; err is the exception a handler raised.       *)
(***************************************************************************)
\* TextOperatorsMixin.__init__ after the base class set up gss and resources
NewViewer(kind, res, g, made) ==
    [ kind      |-> kind,
      stack     |-> <<>>,
      decoders  |-> EmptyMap,
      gss       |-> g.gss,
      heap      |-> g.heap,
      resources |-> res,
      canvas    |-> SimpleCanvas,
      made      |-> made,
      used      |-> {},
      built     |-> 0,
      err       |-> NoError ]

\* mode: the name of the most recent bracket command, or None
mode(v) ==
    IF v.stack # <<>> THEN Some(v.stack[Len(v.stack)].name) ELSE None

\* the decoder property without the `name not in self._decoders` test
decoderUncached(v, name) ==
    IF name # None /\ The(name) \in v.resources.Font
    THEN [v EXCEPT !.made = Append(v.made, The(name)),
                   !.built = v.built + 1,
                   !.decoders = (name :> (Len(v.made) + 1)) @@ v.decoders]
    ELSE [v EXCEPT !.decoders = (name :> default_decoder) @@ v.decoders]

\* the decoder property: the viewer after the lookup; the decoder is
\* v.decoders[name], name the current font name
decoderNamed(v, name) ==
    IF name \notin DOMAIN v.decoders
    THEN IF name # None /\ The(name) \in v.resources.Font
         THEN [v EXCEPT !.made = Append(v.made, The(name)),
                        !.built = v.built + 1,
                        !.decoders = (name :> (Len(v.made) + 1)) @@ v.decoders]
         ELSE [v EXCEPT !.decoders = (name :> default_decoder) @@ v.decoders]
    ELSE v

decoder(v) == decoderNamed(v, font_name(v.heap[v.gss]))

\* self.decoder.decode_hexstring(s) or self.decoder.decode_string(s), v the
\* viewer after the decoder lookup: the viewer and the text
decodeWith(v, name, s) ==
    [ v |-> [v EXCEPT !.used = v.used \cup {name}],
      s |-> IF s.t = "HexString"
            THEN Text(v.decoders[name], "decode_hexstring", s)
            ELSE Text(v.decoders[name], "decode_string", s) ]

decode_string(v, s) == decodeWith(decoder(v), font_name(v.heap[v.gss]), s)

\* after_handler: put the object on the canvas
after_handler(v, obj) ==
    IF obj.t \in Serializable
    THEN [v EXCEPT !.canvas.text_content = @ \o object_to_string(obj)]
    ELSE [v EXCEPT !.err = "ValueError"]

\* a handler returns the viewer and the operator, which it may have changed
Handled(v, obj) == [v |-> v, op |-> obj]

on_inline_image(v, obj) ==
    Handled([v EXCEPT !.canvas.inline_images = Append(@, obj)], obj)

\* on_BT without the mode test: text objects nest
on_BTNested(v, obj) ==
    Handled([v EXCEPT !.stack = Append(@, obj)], obj)

on_BT(v, obj) ==
    IF mode(v) = Some("BT")
    THEN Handled([v EXCEPT !.err = "ValueError"], obj)
    ELSE Handled([v EXCEPT !.stack = Append(@, obj)], obj)

\* on_ET returning quietly where it should raise
on_ETSilent(v, obj) ==
    IF mode(v) # Some("BT")
    THEN Handled(v, obj)
    ELSE Handled([v EXCEPT !.stack = SubSeq(@, 1, Len(@) - 1)], obj)

on_ET(v, obj) ==
    IF mode(v) # Some("BT")
    THEN Handled([v EXCEPT !.err = "ValueError"], obj)
    ELSE Handled([v EXCEPT !.stack = SubSeq(@, 1, Len(@) - 1)], obj)

\* self.gss.state.Font = op.args
on_Tf(v, obj) ==
    Handled([v EXCEPT !.heap[v.gss].Font = Some(obj.args)], obj)

\* on_Tj after decode_string returned d: the string goes on canvas.strings,
\* the operand becomes the escaped literal
ShowString(d, obj) ==
    Handled([d.v EXCEPT !.canvas.strings = Append(@, d.s)],
            [obj EXCEPT !.args = <<EscapedLiteral(d.s)>>])

on_Tj(v, obj) == ShowString(decode_string(v, obj.args[1]), obj)

\* on_TJ's loop body after decode_string returned d for element i
ShowElement(d, arr, i) ==
    [ v   |-> [d.v EXCEPT !.canvas.strings = Append(@, d.s)],
      arr |-> [arr EXCEPT ![i] = EscapedLiteral(d.s)] ]

\* the body of on_TJ's loop without the isinstance test
TJElementAll(v, arr, i) == ShowElement(decode_string(v, arr[i]), arr, i)

\* the body of on_TJ's loop for element i of the array's list arr
TJElement(v, arr, i) ==
    IF arr[i].t \in {"HexString", "String"}
    THEN ShowElement(decode_string(v, arr[i]), arr, i)
    ELSE [v |-> v, arr |-> arr]

\* the loop of on_TJ from element i on; r holds the viewer and the list
RECURSIVE TJFrom(_, _)
TJFrom(r, i) ==
    IF i > Len(r.arr) THEN r
    ELSE TJFrom(TJElement(r.v, r.arr, i), i + 1)

\* on_TJ after its loop
ShownArray(r, obj) == Handled(r.v, [obj EXCEPT !.args[1].v = r.arr])

on_TJ(v, obj) ==
    ShownArray(TJFrom([v |-> v, arr |-> obj.args[1].v], 1), obj)

on_Tstar(v, obj) == Handled(v, obj)

\* operators_aliases and the on_<name> lookup of one viewer class;
\* FormViewer has no on_Do
HandlerName(kind, obj) ==
    IF obj.t = "InlineImage" THEN "on_inline_image"
    ELSE CASE obj.name = "'"  -> "on_apostrophe"
           [] obj.name = "\"" -> "on_quotation"
           [] obj.name = "T*" -> "on_Tstar"
           [] obj.name \in {"BT", "ET", "Tf", "Tj", "TJ"} -> obj.name
           [] obj.name = "Do" /\ kind = "page" -> "on_Do"
           [] OTHER -> "none"

\* the handlers of TextOperatorsMixin
TextHandler(h, v, obj) ==
    CASE h = "on_inline_image" -> on_inline_image(v, obj)
      [] h = "BT" -> on_BT(v, obj)
      [] h = "ET" -> on_ET(v, obj)
      [] h = "Tf" -> on_Tf(v, obj)
      [] h \in {"Tj", "on_apostrophe"} -> on_Tj(v, obj)
      [] h \in {"TJ", "on_quotation"} -> on_TJ(v, obj)
      [] h = "on_Tstar" -> on_Tstar(v, obj)
      [] OTHER -> Handled(v, obj)

\* the viewer base class after the handler returned r: after_handler,
\* unless the handler raised
AfterHandler(r) ==
    IF r.v.err # NoError THEN r.v ELSE after_handler(r.v, r.op)

\* the viewer base class notifying a FormViewer of one object
NotifyForm(v, obj) == AfterHandler(TextHandler(HandlerName("form", obj), v, obj))

\* FormViewer.render(): every object of the content stream in order, until
\* a handler raises
RECURSIVE RenderForm(_, _)
RenderForm(v, content) ==
    IF content = <<>> \/ v.err # NoError THEN v
    ELSE RenderForm(NotifyForm(v, Head(content)), Tail(content))

(***************************************************************************)
(* SimplePDFViewer                                                         *)
(***************************************************************************)
\* a FormViewer whose bracket stack and decoder cache are the caller's (as
\* class attributes would be)
FormViewerInherits(v, xobj) ==
    [ NewViewer("form", FormResources(v.resources, xobj),
                GssCopy(v.heap, v.gss), v.made)
      EXCEPT !.stack = v.stack, !.decoders = v.decoders ]

\* FormViewer(xobj.filtered, resources, self.gss)
FormViewer(v, xobj) ==
    NewViewer("form", FormResources(v.resources, xobj),
              GssCopy(v.heap, v.gss), v.made)

\* on_Do after subviewer.render() returned sub: an exception of the form's
\* viewer goes on to the caller, else its canvas is saved
SaveForm(v, sub, name) ==
    IF sub.err # NoError
    THEN [v EXCEPT !.heap = sub.heap, !.made = sub.made, !.err = sub.err]
    ELSE [v EXCEPT !.heap = sub.heap, !.made = sub.made,
                   !.canvas.forms = (name :> sub.canvas) @@ @]

\* on_Do with the XObject found, a Form rendered whether or not the canvas
\* has it already
DrawXObjectAgain(v, name, xobj) ==
    IF xobj.t = "Image" /\ name \notin DOMAIN v.canvas.forms
    THEN [v EXCEPT !.canvas.images = (name :> xobj.id) @@ @]
    ELSE IF xobj.t = "Form"
         THEN SaveForm(v, RenderForm(FormViewer(v, xobj), xobj.filtered), name)
         ELSE v

\* on_Do with the XObject found
DrawXObject(v, name, xobj) ==
    IF xobj.t = "Image" /\ name \notin DOMAIN v.canvas.forms
    THEN [v EXCEPT !.canvas.images = (name :> xobj.id) @@ @]
    ELSE IF xobj.t = "Form" /\ name \notin DOMAIN v.canvas.forms
         THEN SaveForm(v, RenderForm(FormViewer(v, xobj), xobj.filtered), name)
         ELSE v

\* on_Do with self.resources.XObject[name] for .get(name)
on_DoStrict(v, obj) ==
    IF obj.args[1].v \notin DOMAIN v.resources.XObject
    THEN Handled([v EXCEPT !.err = "KeyError"], obj)
    ELSE Handled(DrawXObject(v, obj.args[1].v,
                             v.resources.XObject[obj.args[1].v]), obj)

on_Do(v, obj) ==
    IF obj.args[1].v \notin DOMAIN v.resources.XObject
    THEN Handled(v, obj)
    ELSE Handled(DrawXObject(v, obj.args[1].v,
                             v.resources.XObject[obj.args[1].v]), obj)

\* the handlers of SimplePDFViewer
PageHandler(h, v, obj) ==
    IF h = "on_Do" THEN on_Do(v, obj) ELSE TextHandler(h, v, obj)

\* the viewer base class notifying the page's viewer of one object
NotifyPage(v, obj) == AfterHandler(PageHandler(HandlerName("page", obj), v, obj))

\* SimplePDFViewer on a page: a fresh graphics state stack
PageViewer ==
    NewViewer("page", [Font |-> PageFonts, XObject |-> XObjects],
              [heap |-> <<NewGraphicsState>>, gss |-> 1], <<>>)

\* the objects the content parser may hand the page's viewer
PageObjects ==
    { Operator("BT", <<>>),
      Operator("ET", <<>>),
      Operator("Tf", <<Name("F1"), Integer("12")>>),
      Operator("Tf", <<Name("F4"), Integer("8")>>),
      Operator("Tj", <<String("a")>>),
      Operator("'", <<HexString("e")>>),
      Operator("TJ", <<Array(<<String("f"), Integer("-5"), HexString("g")>>)>>),
      Operator("\"", <<Array(<<Integer("3"), String("h")>>)>>),
      Operator("T*", <<>>),
      Operator("q", <<>>),
      Operator("Do", <<Name("Im1")>>),
      Operator("Do", <<Name("Fm1")>>),
      Operator("Do", <<Name("Fm2")>>),
      Operator("Do", <<Name("Nope")>>),
      InlineImage(<< [k |-> "W", v |-> Integer("1")],
                     [k |-> "Filter", v |-> Name("LZW")] >>, "pixels") }

(***************************************************************************)
(* State                                                                   *)
(***************************************************************************)
VARIABLES
    data,        \* decode(): the bytes given
    params,      \* decode(): the params mapping
    pc,          \* where the run is
    bytepos,     \* bytestobits: bytes taken from the byte source
    value,       \* bytestobits: the byte being split
    bitplusone,  \* bytestobits: bits of value still to yield
    unp,         \* BitUnpacker.unpack: its local variables
    codepoints,  \* the codepoints yielded to the consumer
    dec,         \* Decoder: _codepoints and _prefix
    cpi,         \* Decoder.decode: codepoints already decoded
    codepoint,   \* _decode_codepoint: its last argument
    ret,         \* _decode_codepoint: its last return value
    decoded,     \* Decoder.decode: the bytes so far
    raised,      \* the exception the last call raised, or NoError
    result,      \* what decode() returned
    run,         \* codepoints unpack yielded since the last control code
    tally,       \* bits of the byte source by what unpack did with them
    viewer,      \* the page's viewer: bracket stack, decoder cache, canvas, ...
    op,          \* the object the viewer was last notified of
    nops,        \* objects the content parser has handed out
    vpc          \* where render() is

countVars == << run, tally >>

lzwVars == << data, params, pc, bytepos, value, bitplusone, unp, codepoints,
              dec, cpi, codepoint, ret, decoded, raised, result, countVars >>

viewVars == << viewer, op, nops, vpc >>

vars == << lzwVars, viewVars >>

\* a viewer nobody renders with
IdleViewer ==
    /\ viewer = PageViewer /\ op = None /\ nops = 0 /\ vpc = "idle"

\* the parts of the state a run does not use
IdleUnpacker ==
    /\ bytepos = 0 /\ value = 0 /\ bitplusone = 0
    /\ unp = UnpackerStart(InitialSize)

IdleDecoder ==
    /\ dec = ClearCodes /\ cpi = 0 /\ codepoint = None /\ ret = <<>>
    /\ decoded = <<>>

IdleFilter ==
    /\ data = <<>> /\ params = [Predictor |-> None, Columns |-> None]
    /\ result = None

\* nothing read yet
NothingRead ==
    /\ run = 0
    /\ tally = [yielded |-> 0, ignored |-> 0]

\* run after one iteration of unpack's loop that yielded out
RunAfter(out) ==
    IF out = <<>> THEN run
    ELSE IF out[1] \in {CLEAR_CODE, END_OF_INFO_CODE} THEN 0
    ELSE run + 1

\* tally after one iteration of unpack's loop on unpacker u that yielded out:
\* the bits of a yielded group, the bits skipped by `continue`
TallyAfter(u, out) ==
    [ yielded |-> tally.yielded + (IF out = <<>> THEN 0 ELSE u.pointwidth),
      ignored |-> tally.ignored + (IF u.ignore > 0 THEN 1 ELSE 0) ]

(***************************************************************************)
(* decode(data, params): decompress, then _remove_predictors               *)
(***************************************************************************)
\* decode() is called: ByteDecoder.__init__ builds the Decoder and the
\* BitUnpacker sized by the Decoder's code_size()
Init ==
    /\ data \in InputSet
    /\ params \in ParamSet
    /\ pc = "unpack"
    /\ dec = ClearCodes
    /\ unp = UnpackerStart(InitialSize)
    /\ bytepos = 0 /\ value = 0 /\ bitplusone = 0
    /\ codepoints = <<>>
    /\ cpi = 0 /\ codepoint = None /\ ret = <<>> /\ decoded = <<>>
    /\ raised = NoError
    /\ result = None
    /\ NothingRead
    /\ IdleViewer

\* Decoder.decode's list comprehension pulls one more bit through
\* bytestobits and unpack
UnpackBit ==
    /\ pc = "unpack"
    /\ bitplusone > 0 \/ bytepos < Len(data)
    /\ LET fresh == bitplusone = 0
           v     == IF fresh THEN data[bytepos + 1] ELSE value
           b     == IF fresh THEN 8 ELSE bitplusone
           step  == UnpackLoopBody(unp, NextBitOf(v, b))
       IN /\ value' = v
          /\ bytepos' = IF fresh THEN bytepos + 1 ELSE bytepos
          /\ bitplusone' = b - 1
          /\ unp' = step.st
          /\ codepoints' = codepoints \o step.out
          /\ run' = RunAfter(step.out)
          /\ tally' = TallyAfter(unp, step.out)
    /\ UNCHANGED << data, params, pc, dec, cpi, codepoint, ret, decoded,
                    raised, result >>
    /\ UNCHANGED viewVars

\* the byte source is exhausted: the generator ends, the decoding loop starts
UnpackDone ==
    /\ pc = "unpack"
    /\ bitplusone = 0 /\ bytepos = Len(data)
    /\ pc' = "decode"
    /\ UNCHANGED << data, params, bytepos, value, bitplusone, unp, codepoints,
                    dec, cpi, codepoint, ret, decoded, raised, result >>
    /\ UNCHANGED countVars
    /\ UNCHANGED viewVars

\* decoded += self._decode_codepoint(cp); a ValueError is caught by decode(),
\* which returns b''; any other exception leaves decode()
DecodeStep ==
    /\ pc = "decode"
    /\ cpi < Len(codepoints)
    /\ LET r == decode_codepoint(dec, codepoints[cpi + 1])
       IN /\ codepoint' = Some(codepoints[cpi + 1])
          /\ cpi' = cpi + 1
          /\ dec' = r.dec
          /\ ret' = r.ret
          /\ raised' = r.raised
          /\ decoded' = decoded \o r.ret
          /\ pc' = IF r.raised = NoError THEN "decode"
                   ELSE IF r.raised = "ValueError" THEN "returned"
                   ELSE "raised"
          /\ result' = IF r.raised = "ValueError" THEN Some(<<>>) ELSE result
    /\ UNCHANGED << data, params, bytepos, value, bitplusone, unp, codepoints >>
    /\ UNCHANGED countVars
    /\ UNCHANGED viewVars

\* decompress() returns the decoded bytes
DecodeDone ==
    /\ pc = "decode"
    /\ cpi = Len(codepoints)
    /\ pc' = "predict"
    /\ UNCHANGED << data, params, bytepos, value, bitplusone, unp, codepoints,
                    dec, cpi, codepoint, ret, decoded, raised, result >>
    /\ UNCHANGED countVars
    /\ UNCHANGED viewVars

\* data = _remove_predictors(data, Predictor, Columns); return data
RemovePredictors ==
    /\ pc = "predict"
    /\ result' = Some(remove_predictors(decoded, params.Predictor, params.Columns))
    /\ pc' = "returned"
    /\ UNCHANGED << data, params, bytepos, value, bitplusone, unp, codepoints,
                    dec, cpi, codepoint, ret, decoded, raised >>
    /\ UNCHANGED countVars
    /\ UNCHANGED viewVars

Next ==
    \/ UnpackBit
    \/ UnpackDone
    \/ DecodeStep
    \/ DecodeDone
    \/ RemovePredictors

Spec == Init /\ [][Next]_vars

\* decode() runs on one thread that is never suspended for ever
SpecLive == Spec /\ WF_vars(Next)

(***************************************************************************)
(* A Decoder driven directly, one _decode_codepoint call at a time         *)
(***************************************************************************)
\* 'a', 'b', the control codes, the next free index and the one after it
FeedSet(d) ==
    MsgAlphabet \cup {CLEAR_CODE, END_OF_INFO_CODE}
    \cup {code_size(d) - 1, code_size(d), code_size(d) + 1}

InitDecoder ==
    /\ IdleFilter /\ IdleUnpacker /\ NothingRead
    /\ pc = "feed"
    /\ dec = ClearCodes
    /\ codepoints = <<>>
    /\ cpi = 0 /\ codepoint = None /\ ret = <<>> /\ decoded = <<>>
    /\ raised = NoError
    /\ IdleViewer

\* dec._decode_codepoint(cp), its exception left to the caller
Feed ==
    /\ pc = "feed"
    /\ cpi < MaxFeed
    /\ \E cp \in FeedSet(dec) :
          LET r == decode_codepoint(dec, cp)
          IN /\ codepoint' = Some(cp)
             /\ codepoints' = Append(codepoints, cp)
             /\ cpi' = cpi + 1
             /\ dec' = r.dec
             /\ ret' = r.ret
             /\ raised' = r.raised
             /\ decoded' = decoded \o r.ret
    /\ UNCHANGED << data, params, pc, bytepos, value, bitplusone, unp, result >>
    /\ UNCHANGED countVars
    /\ UNCHANGED viewVars

NextDecoder == Feed

SpecDecoder == InitDecoder /\ [][NextDecoder]_vars

(***************************************************************************)
(* BitUnpacker.unpack over a byte source that is read as it is produced    *)
(***************************************************************************)
\* 0x00, 0x01, 0x80: 9-bit codes 0, 1, 2, 3, 256, 257, 258, ...
StreamAlphabet == {0, 1, 128}

\* 0x00, 0x80: codes at every width, among them CLEAR and END-OF-INFO
LongAlphabet == {0, 128}

InitUnpack ==
    /\ IdleFilter /\ IdleDecoder /\ NothingRead
    /\ pc = "unpack"
    /\ unp = UnpackerStart(InitialSize)
    /\ bytepos = 0 /\ value = 0 /\ bitplusone = 0
    /\ codepoints = <<>>
    /\ raised = NoError
    /\ IdleViewer

\* one iteration of unpack's loop; the byte source hands out bytes of
\* alphabet until the unpacker's counter reaches cap
UnpackStream(alphabet, cap) ==
    /\ pc = "unpack"
    /\ bitplusone > 0 \/ unp.codesize < cap
    /\ \E v \in IF bitplusone = 0 THEN alphabet ELSE {value} :
          LET b    == IF bitplusone = 0 THEN 8 ELSE bitplusone
              step == UnpackLoopBody(unp, NextBitOf(v, b))
          IN /\ value' = v
             /\ bitplusone' = b - 1
             /\ unp' = step.st
             /\ run' = RunAfter(step.out)
    /\ UNCHANGED << data, params, pc, bytepos, codepoints, dec, cpi, codepoint,
                    ret, decoded, raised, result, tally >>
    /\ UNCHANGED viewVars

\* the byte source is closed: the generator ends
StreamDone(cap) ==
    /\ pc = "unpack"
    /\ bitplusone = 0 /\ unp.codesize >= cap
    /\ pc' = "exhausted"
    /\ UNCHANGED << data, params, bytepos, value, bitplusone, unp, codepoints,
                    dec, cpi, codepoint, ret, decoded, raised, result >>
    /\ UNCHANGED countVars
    /\ UNCHANGED viewVars

NextUnpack ==
    \/ UnpackStream(StreamAlphabet, InitialSize + MaxRun)
    \/ StreamDone(InitialSize + MaxRun)

SpecUnpack == InitUnpack /\ [][NextUnpack]_vars

NextWidth ==
    \/ UnpackStream(LongAlphabet, MaxCounter)
    \/ StreamDone(MaxCounter)

SpecWidth == InitUnpack /\ [][NextWidth]_vars

(***************************************************************************)
(* ByteDecoder: the BitUnpacker and the Decoder on one stream, set side by *)
(* side: the Decoder's state after k codepoints next to the unpacker's     *)
(* after it yielded the k-th.  (Decoder.decode collects the codepoints     *)
(* first; what each of the two does with the k-th is the same.)  The       *)
(* decoded bytes are not kept.                                             *)
(***************************************************************************)
\* _decode_codepoint returned r for codepoint cp; an exception ends the run
DecodedYield(r, cp) ==
    /\ dec' = r.dec
    /\ codepoint' = Some(cp)
    /\ ret' = r.ret
    /\ raised' = r.raised
    /\ pc' = IF r.raised = NoError THEN "unpack" ELSE "raised"

\* the Decoder takes what the iteration of unpack's loop yielded
DecodeYielded(out) ==
    IF out = <<>>
    THEN UNCHANGED << dec, codepoint, ret, raised, pc >>
    ELSE DecodedYield(decode_codepoint(dec, out[1]), out[1])

\* one iteration of unpack's loop, and of Decoder.decode's if it yielded
UnpackAndDecode(alphabet, cap) ==
    /\ pc = "unpack"
    /\ bitplusone > 0 \/ unp.codesize < cap
    /\ \E v \in IF bitplusone = 0 THEN alphabet ELSE {value} :
          LET b    == IF bitplusone = 0 THEN 8 ELSE bitplusone
              step == UnpackLoopBody(unp, NextBitOf(v, b))
          IN /\ value' = v
             /\ bitplusone' = b - 1
             /\ unp' = step.st
             /\ run' = RunAfter(step.out)
             /\ DecodeYielded(step.out)
    /\ UNCHANGED << data, params, bytepos, codepoints, cpi, decoded, result,
                    tally >>
    /\ UNCHANGED viewVars

\* 0x00, 0x40, 0x80: 9-bit codes 0, 1, 2, 256, 257, 258, ...
SyncAlphabet == {0, 64, 128}

NextSync ==
    \/ UnpackAndDecode(SyncAlphabet, InitialSize + MaxSync)
    \/ StreamDone(InitialSize + MaxSync)

SpecSync == InitUnpack /\ [][NextSync]_vars

(***************************************************************************)
(* SimplePDFViewer.render() over one page                                  *)
(***************************************************************************)
IdleLzw ==
    /\ IdleFilter /\ IdleUnpacker /\ IdleDecoder /\ NothingRead
    /\ pc = "idle" /\ codepoints = <<>> /\ raised = NoError

InitViewer ==
    /\ IdleLzw
    /\ viewer = PageViewer
    /\ op = None
    /\ nops = 0
    /\ vpc = "render"

\* the viewer is notified of the next object of the content stream; an
\* exception of a handler ends render()
Notify ==
    /\ vpc = "render"
    /\ nops < MaxOps
    /\ \E obj \in PageObjects :
          /\ op' = Some(obj)
          /\ nops' = nops + 1
          /\ viewer' = NotifyPage(viewer, obj)
          /\ vpc' = IF viewer'.err # NoError THEN "raised" ELSE "render"
    /\ UNCHANGED lzwVars

NextViewer == Notify

SpecViewer == InitViewer /\ [][NextViewer]_vars

(***************************************************************************)
(* Properties of the LZW filter                                            *)
(***************************************************************************)
\* C1: decode(data, params) always returns to its caller, and returns b''
\* whenever a stage of the pipeline failed.  (The code catches ValueError
\* only: a first codepoint outside the codebook raises TypeError.)
DecodeNeverRaises ==
    /\ pc # "raised"
    /\ (pc = "returned" /\ raised # NoError) => result = Some(<<>>)

\* C2: decompress(encode(b)) = b for every plain text b, also when the
\* encoding holds a code equal to the decoder's next free index ('aaa').
RoundTrip ==
    pc = "predict" =>
        \A m \in Messages : encodetobytes(m) = data => decoded = m

\* C3: in decompress, END-OF-INFO (257) is never an argument of
\* Decoder._decode_codepoint.
EndOfInfoNeverDecoded == codepoint # Some(END_OF_INFO_CODE)

\* a step that decoded the non-control codepoint without an error
DecodedData ==
    /\ cpi' = cpi + 1
    /\ raised' = NoError
    /\ codepoint' # Some(CLEAR_CODE)

\* C4, as claimed: every non-control codepoint decoded without error grows
\* code_size() by one, the first one on a fresh decoder or after a CLEAR too.
CodeSizeGrowsPerCodepoint ==
    [][DecodedData => code_size(dec') = code_size(dec) + 1]_vars

\* C4, amended: a non-control codepoint decoded without error grows
\* code_size() by one when a previous output is remembered and leaves it
\* unchanged when none is (the first codepoint of a fresh decoder or after a
\* CLEAR); after a CLEAR code_size() is 258.
CodeSizeGrowsAfterPrefix ==
    [][ /\ DecodedData =>
            code_size(dec') =
                code_size(dec) + (IF dec.prefix = None THEN 0 ELSE 1)
        /\ (cpi' = cpi + 1 /\ codepoint' = Some(CLEAR_CODE)) =>
            (code_size(dec') = 258 /\ raised' = NoError)
        /\ (cpi = 0 \/ codepoint = Some(CLEAR_CODE)) => dec.prefix = None
      ]_vars

\* C4 witness: a second data codepoint was decoded and the codebook grew
CodeSizeGrew ==
    /\ pc = "feed" /\ cpi >= 2 /\ raised = NoError
    /\ codepoint # Some(CLEAR_CODE)
    /\ code_size(dec) = 260

\* C5: the unpacker's code width never exceeds 12 bits and its counter never
\* exceeds 4096, whatever the input.
WidthNeverExceedsMaxBits ==
    /\ unp.pointwidth <= DEFAULT_MAX_BITS
    /\ unp.codesize <= Pow2(DEFAULT_MAX_BITS)

\* C6: a codepoint equal to the next free index, with a previous output P,
\* is decoded to P + P[0:1], which becomes the new entry and the new
\* previous output.
KwKwKOutput ==
    [][ ( /\ cpi' = cpi + 1
          /\ codepoint' = Some(code_size(dec))
          /\ dec.prefix # None )
        => /\ raised' = NoError
           /\ ret' = The(dec.prefix) \o <<The(dec.prefix)[1]>>
           /\ code_size(dec') = code_size(dec) + 1
           /\ dec'.codepoints[code_size(dec)] = ret'
           /\ dec'.prefix = Some(ret')
      ]_vars

\* C10: after END-OF-INFO is yielded the unpacker ignores exactly the bits
\* left in the byte being read (none on a byte boundary), and the group it
\* collects next starts on a byte boundary and is DEFAULT_MIN_BITS wide.
AfterEndOfInfo ==
    unp.codepoint = Some(END_OF_INFO_CODE) =>
        /\ unp.bits = <<>> => unp.ignore = bitplusone
        /\ unp.bits # <<>> =>
              /\ unp.ignore = 0
              /\ (Len(unp.bits) + bitplusone) % 8 = 0
              /\ unp.pointwidth = DEFAULT_MIN_BITS

\* the step that yields the codepoint following an END-OF-INFO
YieldAfterEndOfInfo ==
    ( /\ unp.codepoint = Some(END_OF_INFO_CODE)
      /\ unp'.codepoint # unp.codepoint \/ (unp.bits # <<>> /\ unp'.bits = <<>>) )
    => /\ Len(unp.bits) + 1 = DEFAULT_MIN_BITS
       /\ (Len(unp.bits) + bitplusone) % 8 = 0
       /\ pc = "unpack" /\ pc' = "unpack"

EndOfInfoAlignment == []AfterEndOfInfo /\ [][YieldAfterEndOfInfo]_vars

\* C10 witness: END-OF-INFO was yielded with its last bit the last bit of
\* the byte 0x01, so there is nothing to ignore
EndOfInfoOnBoundary ==
    /\ unp.codepoint = Some(END_OF_INFO_CODE)
    /\ value = 1 /\ bitplusone = 0
    /\ unp.bits = <<>> /\ unp.ignore = 0

\* the smallest w >= DEFAULT_MIN_BITS with InitialSize + (k - 1) < 2 ** w
RECURSIVE WidthFrom(_, _)
WidthFrom(w, k) ==
    IF InitialSize + (k - 1) < Pow2(w) THEN w ELSE WidthFrom(w + 1, k)

WidthOfCodepoint(k) == WidthFrom(DEFAULT_MIN_BITS, k)

\* the group being collected is that of codepoint run + 1 since the reset
WidthTiming ==
    /\ unp.pointwidth = WidthOfCodepoint(run + 1)
    /\ unp.codesize < Pow2(unp.pointwidth)
    /\ run <= 253 => unp.pointwidth = 9
    /\ run = 254 => unp.pointwidth = 10
    /\ run = 765 => unp.pointwidth = 10
    /\ run = 766 => unp.pointwidth = 11

\* C11: the k-th codepoint after a reset is read with the smallest width
\* w >= 9 such that 258 + (k - 1) < 2^w (the first 254 at 9 bits, the 255th
\* at 10); after every codepoint the counter is below 2^width, and the
\* width grows by at most one per codepoint.
WidthGrowthTiming ==
    []WidthTiming /\ [][unp'.pointwidth <= unp.pointwidth + 1]_vars

\* C11 witness: 254 codepoints were yielded since the reset and the 255th
\* is being collected at 10 bits
TenBitsAtCodepoint255 ==
    /\ run = 254
    /\ unp.pointwidth = 10
    /\ Len(unp.bits) = 9

\* the bits bytestobits has handed out so far
BitsRead == 8 * bytepos - bitplusone

\* every bit handed out is in a yielded group, was ignored for alignment or
\* waits in the group being collected, which is shorter than the width
BitsAccounted ==
    /\ BitsRead = tally.yielded + tally.ignored + Len(unp.bits)
    /\ Len(unp.bits) < unp.pointwidth
    /\ tally.yielded >= DEFAULT_MIN_BITS * Len(codepoints)
    /\ Len(codepoints) <= (8 * Len(data)) \div 9
    /\ pc # "unpack" => BitsRead = 8 * Len(data)

\* C12: unpack() ends on every byte string of n bytes, and then 8 * n is the
\* sum of the widths of the codepoints yielded, plus the bits ignored after
\* END-OF-INFO, plus a leftover shorter than the current width that is not
\* yielded; at most floor(8 * n / 9) codepoints are yielded.
UnpackAccountsForEveryBit == []BitsAccounted /\ <>(pc # "unpack")

\* C12 witness: of three bytes, 9 bits were yielded (END-OF-INFO), 7 ignored
\* and 8 left over
EndOfInfoThenLeftover ==
    /\ pc = "decode"
    /\ Len(data) = 3
    /\ codepoints = <<END_OF_INFO_CODE>>
    /\ tally = [yielded |-> 9, ignored |-> 7]
    /\ Len(unp.bits) = 8

(***************************************************************************)
(* Properties of the viewer                                                *)
(***************************************************************************)
\* the step that notifies the page's viewer of operator name
Notified(name) ==
    /\ nops' = nops + 1
    /\ The(op').t = "Operator"
    /\ The(op').name = name

\* C7: an ET met when the bracket stack is empty (or its top is no BT)
\* raises ValueError and ends render(); the bracket stack and the canvas
\* stay as they were before the ET.
ETWithoutBTRaises ==
    [][ (Notified("ET") /\ mode(viewer) # Some("BT"))
        => /\ viewer'.err = "ValueError"
           /\ vpc' = "raised"
           /\ viewer'.stack = viewer.stack
           /\ viewer'.canvas = viewer.canvas
      ]_vars

\* C7 witness: an ET outside a text object ended render() after strings,
\* an image and text had been put on the canvas
ETRaisedAfterContent ==
    /\ vpc = "raised"
    /\ The(op).t = "Operator" /\ The(op).name = "ET"
    /\ viewer.stack = <<>>
    /\ viewer.canvas.strings # <<>>
    /\ viewer.canvas.text_content # <<>>
    /\ DOMAIN viewer.canvas.images # {}

\* the font names the page's viewer decoded a string under
UsedNames == viewer.used \ {None}

\* C8, as claimed: the page's viewer constructed as many string decoders as
\* there are distinct font names it decoded a string under, whether or not
\* the resources hold a font of that name.
DecoderPerFontName == viewer.built = Cardinality(UsedNames)

\* the cache of the page's viewer: one entry per font name used; a Decoder
\* constructed for each name the resources hold a font for, the shared
\* default decoder for every other
DecoderCache ==
    /\ viewer.built =
          Cardinality({n \in UsedNames : The(n) \in viewer.resources.Font})
    /\ DOMAIN viewer.decoders = viewer.used
    /\ \A n \in viewer.used :
          IF n # None /\ The(n) \in viewer.resources.Font
          THEN /\ viewer.decoders[n] \in 1..Len(viewer.made)
               /\ viewer.made[viewer.decoders[n]] = The(n)
          ELSE viewer.decoders[n] = default_decoder

\* a cached decoder stays, and every string a step puts on canvas.strings
\* was decoded by the decoder cached for the current font name
DecoderReused ==
    /\ \A n \in DOMAIN viewer.decoders :
          /\ n \in DOMAIN viewer'.decoders
          /\ viewer'.decoders[n] = viewer.decoders[n]
    /\ \A i \in (Len(viewer.canvas.strings) + 1)..Len(viewer'.canvas.strings) :
          viewer'.canvas.strings[i][2] =
              viewer'.decoders[font_name(viewer.heap[viewer.gss])]

\* C8, amended: the constructions equal the number of distinct font names
\* used that the resources hold a font for; a name without one is cached
\* with the shared default decoder and constructs nothing; once cached, a
\* name keeps its decoder instance.
DecoderPerKnownFont == []DecoderCache /\ [][DecoderReused]_vars

\* C8 witness: four strings shown under two font names, one of them without
\* a font in the resources, with one Decoder constructed
TwoNamesOneDecoder ==
    /\ viewer.used = {Some("F1"), Some("F4")}
    /\ viewer.built = 1
    /\ Len(viewer.canvas.strings) >= 3

\* the step in which the page's viewer renders the form called name
RendersForm(name) ==
    /\ Notified("Do")
    /\ The(op').args[1].v = name
    /\ name \notin DOMAIN viewer.canvas.forms
    /\ name \in DOMAIN viewer'.canvas.forms

\* the decoder a viewer with the fonts of FormTwo caches for font name n
FormTwoDecodes(n, obj, made) ==
    IF n # None /\ The(n) \in PageFonts \cup XObjects["Fm2"].Fonts
    THEN obj \in 1..Len(made) /\ made[obj] = The(n)
    ELSE obj = default_decoder

NotifiedOther ==
    /\ nops' = nops + 1
    /\ The(op').t = "Operator" => The(op').name \notin {"BT", "ET"}

\* the bracket stack holds BT operators only, none or one
BracketStack ==
    /\ Len(viewer.stack) <= 1
    /\ \A i \in 1..Len(viewer.stack) :
          viewer.stack[i].t = "Operator" /\ viewer.stack[i].name = "BT"

BracketSteps ==
    /\ (Notified("BT") /\ mode(viewer) = Some("BT")) =>
          /\ viewer'.err = "ValueError"
          /\ vpc' = "raised"
          /\ viewer'.stack = viewer.stack
    /\ (Notified("BT") /\ mode(viewer) # Some("BT")) =>
          /\ viewer'.err = NoError
          /\ viewer'.stack = Append(viewer.stack, The(op'))
    /\ (Notified("ET") /\ mode(viewer) = Some("BT")) =>
          /\ viewer'.err = NoError
          /\ Append(viewer'.stack, viewer.stack[Len(viewer.stack)]) = viewer.stack
    /\ NotifiedOther => viewer'.stack = viewer.stack

\* C13: the bracket stack holds only BT operators and has depth 0 or 1; BT
\* raises and leaves the stack alone when the top is BT and pushes one entry
\* otherwise; ET pops one entry; no other object changes the stack.
BracketStateMachine == []BracketStack /\ [][BracketSteps]_vars

\* C13 witness: a BT inside a text object, after a string was shown there,
\* ended render() with the one BT still on the stack
BTRaisedInsideText ==
    /\ vpc = "raised"
    /\ The(op).t = "Operator" /\ The(op).name = "BT"
    /\ Len(viewer.stack) = 1
    /\ viewer.canvas.strings # <<>>

\* the FormViewers constructed so far: each one holds a graphics state of
\* its own
NestedRuns(v) == Len(v.heap) - 1

\* the name a Do step draws
Drawn == The(op').args[1].v

\* no name is both an image and a form of the canvas, and every form of the
\* canvas was rendered by one nested run
ImagesApartFromForms ==
    /\ DOMAIN viewer.canvas.images \cap DOMAIN viewer.canvas.forms = {}
    /\ NestedRuns(viewer) = Cardinality(DOMAIN viewer.canvas.forms)

DoSteps ==
    Notified("Do") =>
        /\ Drawn \in DOMAIN viewer.canvas.forms =>
              /\ NestedRuns(viewer') = NestedRuns(viewer)
              /\ viewer'.made = viewer.made
              /\ viewer'.canvas.forms = viewer.canvas.forms
              /\ viewer'.canvas.images = viewer.canvas.images
        /\ Drawn \in DOMAIN viewer'.canvas.forms \ DOMAIN viewer.canvas.forms =>
              /\ NestedRuns(viewer') = NestedRuns(viewer) + 1
              /\ viewer.resources.XObject[Drawn].t = "Form"
        /\ viewer'.canvas.images # viewer.canvas.images =>
              /\ Drawn \notin DOMAIN viewer.canvas.forms
              /\ viewer.resources.XObject[Drawn].t = "Image"
              /\ DOMAIN viewer'.canvas.images =
                    DOMAIN viewer.canvas.images \cup {Drawn}
        /\ \A n \in DOMAIN viewer.canvas.forms :
              /\ n \in DOMAIN viewer'.canvas.forms
              /\ viewer'.canvas.forms[n] = viewer.canvas.forms[n]

\* C14: a form name is rendered by a nested run at most once per canvas (a
\* Do of a name the form map has starts no nested run and leaves the stored
\* canvas alone); an image is stored only when no form is recorded under its
\* name; the keys of the image map and of the form map stay disjoint.
DoBookkeeping == []ImagesApartFromForms /\ [][DoSteps]_vars

\* C14 witness: Do /Fm1 came first and last, an image was stored, and one
\* nested run was made
FormDrawnTwice ==
    /\ nops = 3
    /\ viewer.canvas.text_content[3] = Lit("Fm1")
    /\ The(op) = Operator("Do", <<Name("Fm1")>>)
    /\ DOMAIN viewer.canvas.images = {"Im1"}
    /\ DOMAIN viewer.canvas.forms = {"Fm1"}
    /\ NestedRuns(viewer) = 1

\* C15: a Do whose name the XObject table lacks raises nothing and leaves
\* the image map, the form map, the strings, the inline images, the bracket
\* stack and the graphics state as they were; render() goes on.
UnknownXObjectSkipped ==
    [][ (Notified("Do") /\ Drawn \notin DOMAIN viewer.resources.XObject)
        => /\ viewer'.err = NoError
           /\ vpc' = "render"
           /\ viewer'.canvas.images = viewer.canvas.images
           /\ viewer'.canvas.forms = viewer.canvas.forms
           /\ viewer'.canvas.strings = viewer.canvas.strings
           /\ viewer'.canvas.inline_images = viewer.canvas.inline_images
           /\ viewer'.stack = viewer.stack
           /\ viewer'.gss = viewer.gss
           /\ viewer'.heap = viewer.heap
      ]_vars

\* C15 witness: the page began with Do /Nope, and two more objects were
\* handled, a string among them
RenderedPastUnknownXObject ==
    /\ nops = 3
    /\ vpc = "render"
    /\ viewer.canvas.text_content[3] = Lit("Nope")
    /\ viewer.canvas.strings # <<>>
    /\ viewer.canvas.inline_images # <<>>

\* C16: a Do inside a form's content stream that names a form is handled by
\* the form's viewer, which renders that form in a further nested run and
\* records its canvas in the nested canvas's form map: FormTwo draws Fm1.
\* (FormViewer has no on_Do: the nested canvas's form map stays empty.)
FormsRecurse ==
    "Fm2" \in DOMAIN viewer.canvas.forms =>
        /\ "Fm1" \in DOMAIN viewer.canvas.forms["Fm2"].forms
        /\ viewer.canvas.forms["Fm2"].forms["Fm1"].strings # <<>>

\* the step that notifies the page's viewer of an object other than the
\* operators that show text
NotifiedNoText ==
    /\ nops' = nops + 1
    /\ The(op').t = "Operator" => The(op').name \notin {"Tj", "'", "TJ", "\""}

StringShaped(elm) == elm.t \in {"String", "HexString"}

\* what the decoder cached for the current font name returns for string s
DecodedNow(s) ==
    Text(viewer'.decoders[font_name(viewer.heap[viewer.gss])],
         IF s.t = "HexString" THEN "decode_hexstring" ELSE "decode_string", s)

\* the decoded texts of the string-shaped elements of arr, in order
RECURSIVE DecodedElements(_)
DecodedElements(arr) ==
    IF arr = <<>> THEN <<>>
    ELSE (IF StringShaped(Head(arr)) THEN <<DecodedNow(Head(arr))>> ELSE <<>>)
         \o DecodedElements(Tail(arr))

\* arr with each string-shaped element replaced by its escaped literal
Reconstructed(arr) ==
    [i \in 1..Len(arr) |->
        IF StringShaped(arr[i]) THEN EscapedLiteral(DecodedNow(arr[i]))
        ELSE arr[i]]

\* the operator a step put on text_content
PutOnCanvas(operator) ==
    viewer'.canvas.text_content =
        viewer.canvas.text_content \o object_to_string(operator)

TextSteps ==
    /\ \A name \in {"Tj", "'"} : Notified(name) =>
          /\ viewer'.canvas.strings =
                Append(viewer.canvas.strings, DecodedNow(The(op').args[1]))
          /\ PutOnCanvas(Operator(name,
                <<EscapedLiteral(DecodedNow(The(op').args[1]))>>))
    /\ \A name \in {"TJ", "\""} : Notified(name) =>
          /\ viewer'.canvas.strings =
                viewer.canvas.strings \o DecodedElements(The(op').args[1].v)
          /\ PutOnCanvas(Operator(name,
                <<Array(Reconstructed(The(op').args[1].v))>>))
    /\ NotifiedNoText => viewer'.canvas.strings = viewer.canvas.strings
    /\ Len(viewer'.canvas.strings) >= Len(viewer.canvas.strings)
    /\ SubSeq(viewer'.canvas.strings, 1, Len(viewer.canvas.strings)) =
          viewer.canvas.strings

\* C17: canvas.strings is append-only; Tj and ' append the decoded operand
\* and replace the operand by its escaped literal; TJ appends the decoded
\* string elements of its array in order and replaces those elements only,
\* numbers and the array's length staying as they were; nothing else
\* appends.
DecodedTextHistory == [][TextSteps]_vars

\* C17 witness: (a) Tj and then [(f) -5 <g>] TJ were shown
StringThenArrayShown ==
    /\ nops = 2
    /\ The(op).t = "Operator" /\ The(op).name = "TJ"
    /\ Len(viewer.canvas.strings) = 3
    /\ viewer.canvas.strings[1][4] = "a"
    /\ viewer.canvas.strings[2][4] = "f"
    /\ viewer.canvas.strings[3][4] = "g"

\* the codepoints before and after position i
Before(i) == SubSeq(codepoints, 1, i - 1)

After(i) == SubSeq(codepoints, i + 1, Len(codepoints))

\* the codepoint list and the bytes of Decoder.decode's docstring,
\* 'gabba gabba yo gabba'
GabbaCodepoints ==
    << 103, 97, 98, 98, 97, 32, 258, 260, 262, 121, 111, 263, 259, 261, 256 >>

GabbaBytes ==
    << 103, 97, 98, 98, 97, 32, 103, 97, 98, 98, 97, 32, 121, 111, 32,
       103, 97, 98, 98, 97 >>

\* C18: after a CLEAR the codebook is the initial one of 258 entries and no
\* previous output is remembered, so for s1 and s2 that a fresh Decoder
\* decodes without error, one Decoder decodes s1 ++ [256] ++ s2 to
\* decode(s1) ++ decode(s2).
ClearResetsDecoder ==
    /\ (cpi > 0 /\ codepoint = Some(CLEAR_CODE)) =>
          /\ raised = NoError
          /\ dec = ClearCodes
          /\ code_size(dec) = 258
    /\ \A i \in 1..Len(codepoints) :
          ( /\ codepoints[i] = CLEAR_CODE
            /\ Decoder_decode(Before(i)).raised = NoError
            /\ Decoder_decode(After(i)).raised = NoError )
          => /\ Decoder_decode(codepoints).raised = NoError
             /\ decoded = Decoder_decode(Before(i)).decoded
                           \o Decoder_decode(After(i)).decoded
    /\ Decoder_decode(GabbaCodepoints).decoded = GabbaBytes

\* C18 witness: 'a', 'b' grew the codebook to 259, CLEAR reset it, and 'b'
\* was decoded after it without adding an entry
ClearBetweenRuns ==
    /\ codepoints = <<97, 98, CLEAR_CODE, 98>>
    /\ decoded = <<97, 98, 98>>
    /\ code_size(dec) = 258
    /\ dec.prefix = Some(<<98>>)

\* C19: with the unpacker and the Decoder on one stream, and neither
\* END-OF-INFO nor a decode error so far, after every codepoint the
\* unpacker's counter is code_size() when the codepoint was CLEAR and
\* code_size() + 1 otherwise; it is never behind code_size(), and every
\* codepoint up to the next free index fits in the width of the next group.
CounterTracksCodebook ==
    (raised = NoError /\ unp.codepoint # Some(END_OF_INFO_CODE)) =>
        /\ unp.codepoint = codepoint
        /\ unp.codesize =
              code_size(dec)
              + (IF unp.codepoint \in {None, Some(CLEAR_CODE)} THEN 0 ELSE 1)
        /\ unp.codesize >= code_size(dec)
        /\ code_size(dec) < Pow2(unp.pointwidth)

\* C19 witness: two codepoints were unpacked and decoded, the second of
\* them the next free index 258, and the next group is being read
InStepAtNextFreeIndex ==
    /\ pc = "unpack" /\ raised = NoError
    /\ run = 2
    /\ unp.codepoint = Some(258)
    /\ code_size(dec) = 259
    /\ unp.codesize = 260
    /\ unp.bits # <<>>

\* the decoder instances constructed during the step
NewDecoders == (Len(viewer.made) + 1)..Len(viewer'.made)

FormSteps ==
    /\ Notified("Do") =>
          /\ viewer'.stack = viewer.stack
          /\ viewer'.decoders = viewer.decoders
          /\ viewer'.used = viewer.used
          /\ viewer'.built = viewer.built
          /\ viewer'.canvas.strings = viewer.canvas.strings
    /\ (Notified("Do") /\ Drawn = "Fm1"
           /\ "Fm1" \notin DOMAIN viewer.canvas.forms) =>
          /\ viewer'.err = NoError
          /\ "Fm1" \in DOMAIN viewer'.canvas.forms
          /\ Len(viewer'.canvas.forms["Fm1"].strings) = 1
          /\ viewer'.canvas.forms["Fm1"].strings[1][4] = "b"
          /\ viewer'.canvas.forms["Fm1"].strings[1][2] \in NewDecoders
    /\ (RendersForm("Fm2") /\ font_name(viewer.heap[viewer.gss]) = Some("F1")) =>
          /\ Len(viewer'.canvas.forms["Fm2"].strings) = 2
          /\ viewer'.canvas.forms["Fm2"].strings[1][4] = "c"
          /\ viewer'.canvas.forms["Fm2"].strings[1][2] \in NewDecoders

\* C20: a form's viewer starts with an empty bracket stack and an empty
\* decoder cache whatever the page's are (FormOne's BT does not raise inside
\* the page's BT, and a font the page has a decoder for gets a new one in the
\* form); rendering a form leaves the page's bracket stack, decoder cache
\* and strings as they were, the form's strings going to the nested canvas.
NestedViewerIndependent == [][FormSteps]_vars

\* C20 witness: FormTwo was rendered between the page's BT and ET, with a
\* decoder cached for the page's font F1
FormDrawnInsideText ==
    /\ nops = 4
    /\ The(op) = Operator("Do", <<Name("Fm2")>>)
    /\ Len(viewer.stack) = 1
    /\ Some("F1") \in DOMAIN viewer.decoders
    /\ "Fm2" \in DOMAIN viewer.canvas.forms
    /\ Len(viewer.canvas.strings) = 1

====
